---- MODULE Spec2Model ----
(***************************************************************************)
(* Batch pipeline of streamlit_app.py: process_files (document loop,       *)
(* catalog fallback, grouping by instructor / academic year / term, one    *)
(* report per group) followed by the main script's create_dataframe.       *)
(* get_academic_year, the statistics rows of parse_evaluation_content,    *)
(* the chart summaries and create_short_name are also evaluated on their   *)
(* own, each under its own specification.                                  *)
(*                                                                         *)
(* Python values are represented as follows.                               *)
(*   str used as a dict key or formatted -> sequence of 1-character strings*)
(*   dict (insertion ordered)            -> sequence of <<key, value>>     *)
(*   list                                -> sequence                       *)
(*   None (academic year, parse result)  -> the constant None              *)
(*   '' stored in result['Year']         -> YearAbsent                     *)
(***************************************************************************)
EXTENDS Integers, Sequences, FiniteSets, TLC

\* Largest number of uploaded documents in one batch.
MaxFiles == 2

\* result['Year'] = '' when no "<semester> <4 digits>" is found.
YearAbsent == -1

\* Python None in its three places: the academic year returned by
\* get_academic_year, the result of parse_evaluation_content, and the
\* survey_items of process_files before any document has set it.
None == <<>>

NoneData == [none |-> TRUE]

NoneItems == << <<-1, "None">> >>

----------------------------------------------------------------------------
(* Python built-ins used by the code                                       *)

Digits == <<"0", "1", "2", "3", "4", "5", "6", "7", "8", "9">>

\* str(n) / f"{n}" of an integer: decimal digits, no padding.
RECURSIVE Str(_)
Str(n) ==
    IF n < 0 THEN <<"-">> \o Str(0 - n)
    ELSE IF n < 10 THEN <<Digits[n + 1]>>
    ELSE Str(n \div 10) \o <<Digits[(n % 10) + 1]>>

\* dict operations on a sequence of <<key, value>> pairs.
HasKey(d, k) == \E j \in 1..Len(d) : d[j][1] = k

Get(d, k, default) ==
    IF HasKey(d, k) THEN d[CHOOSE j \in 1..Len(d) : d[j][1] = k][2] ELSE default

Put(d, k, v) ==
    IF HasKey(d, k)
    THEN [j \in 1..Len(d) |-> IF d[j][1] = k THEN <<k, v>> ELSE d[j]]
    ELSE Append(d, <<k, v>>)

\* Tuple comparison (a1, a2) < (b1, b2) on integer components.
KeyLess(a, b) == a[1] < b[1] \/ (a[1] = b[1] /\ a[2] < b[2])

\* list.sort / sorted with a key: stable, ascending.  The argument is a
\* sequence of <<key, element>> pairs; the result is the elements.
RECURSIVE InsertByKey(_, _)
InsertByKey(s, x) ==
    IF s = <<>> THEN <<x>>
    ELSE IF KeyLess(x[1], Head(s)[1]) THEN <<x>> \o s
    ELSE <<Head(s)>> \o InsertByKey(Tail(s), x)

RECURSIVE SortPairs(_)
SortPairs(s) ==
    IF s = <<>> THEN <<>>
    ELSE InsertByKey(SortPairs(SubSeq(s, 1, Len(s) - 1)), s[Len(s)])

StableSort(s) == [j \in 1..Len(s) |-> SortPairs(s)[j][2]]

\* All orders of the elements of a sequence.
Orderings(s) ==
    { [j \in 1..Len(s) |-> s[p[j]]] :
        p \in { q \in [1..Len(s) -> 1..Len(s)] :
                  \A a, b \in 1..Len(s) : q[a] = q[b] => a = b } }

----------------------------------------------------------------------------
(* Survey item catalog                                                     *)

\* extract_survey_items: `section` is the numbered list that follows the
\* "Instructor Survey Items:" header, one <<number, text>> per line, or <<>>
\* when the header is not in the text.  Each line assigns items[number].
RECURSIVE extract_survey_items(_)
extract_survey_items(section) ==
    IF section = <<>> THEN <<>>
    ELSE LET n == Len(section)
         IN Put(extract_survey_items(SubSeq(section, 1, n - 1)),
                section[n][1], section[n][2])

\* The literal dict of lines 307-313.
DefaultSurveyItems ==
    << <<1, "The instructor explained concepts clearly.">>,
       <<2, "The instructor used effective teaching methods.">>,
       <<3, "The instructor interacted with students in a respectful, professional manner.">>,
       <<4, "The instructor was knowledgeable in the subject area.">>,
       <<5, "Overall, I rate the instructor highly.">> >>

----------------------------------------------------------------------------
(* Academic calendar                                                       *)

\* str.strip() on the semester values the model draws: the parser's values
\* carry no surrounding whitespace, a blank string strips to ''.
strip(semester) == IF semester = " " THEN "" ELSE semester

\* Python truth value of a year: '' and 0 are false.
YearTruthy(year) == year # YearAbsent /\ year # 0

\* int(year) if isinstance(year, (int, str)) and str(year).isdigit() else None
\* (None is returned as 0 here: both are false at line 98).
YearToInt(year) == IF year >= 0 THEN year ELSE 0

get_academic_year(semester, year) ==
    IF semester = "" \/ ~YearTruthy(year) THEN None
    ELSE LET sem == strip(semester)
             y   == YearToInt(year)
         IN  IF ~YearTruthy(y) THEN None
             ELSE IF sem = "Fall" THEN Str(y) \o <<"-">> \o Str(y + 1)
             ELSE IF sem \in {"Winter", "Spring", "Summer"}
                  THEN Str(y - 1) \o <<"-">> \o Str(y)
             ELSE None

\* term_order.get(term, 99) of organize_by_term.
term_order(term) ==
    CASE term = "Fall"   -> 1
      [] term = "Winter" -> 2
      [] term = "Spring" -> 3
      [] term = "Summer" -> 4
      [] OTHER           -> 99

\* The loop with "organized[academic_year][semester] = [data]" for the append.
RECURSIVE organize_loop_overwrite(_)
organize_loop_overwrite(data_list) ==
    IF data_list = <<>> THEN <<>>
    ELSE LET n == Len(data_list)
             organized == organize_loop_overwrite(SubSeq(data_list, 1, n - 1))
             data == data_list[n]
             academic_year == get_academic_year(data.Semester, data.Year)
         IN  IF academic_year = None THEN organized
             ELSE LET year_data == Get(organized, academic_year, <<>>)
                  IN  Put(organized, academic_year,
                          Put(year_data, data.Semester, <<data>>))

\* The loop without the "if not academic_year: continue" of lines 123-124.
RECURSIVE organize_loop_no_skip(_)
organize_loop_no_skip(data_list) ==
    IF data_list = <<>> THEN <<>>
    ELSE LET n == Len(data_list)
             organized == organize_loop_no_skip(SubSeq(data_list, 1, n - 1))
             data == data_list[n]
             academic_year == get_academic_year(data.Semester, data.Year)
             year_data == Get(organized, academic_year, <<>>)
             courses   == Get(year_data, data.Semester, <<>>)
         IN  Put(organized, academic_year,
                 Put(year_data, data.Semester, Append(courses, data)))

\* The loop with "organized[academic_year][semester].insert(0, data)" for the
\* append.
RECURSIVE organize_loop_prepend(_)
organize_loop_prepend(data_list) ==
    IF data_list = <<>> THEN <<>>
    ELSE LET n == Len(data_list)
             organized == organize_loop_prepend(SubSeq(data_list, 1, n - 1))
             data == data_list[n]
             academic_year == get_academic_year(data.Semester, data.Year)
         IN  IF academic_year = None THEN organized
             ELSE LET year_data == Get(organized, academic_year, <<>>)
                      courses   == Get(year_data, data.Semester, <<>>)
                  IN  Put(organized, academic_year,
                          Put(year_data, data.Semester, <<data>> \o courses))

\* The loop of lines 118-132: organized[academic_year][semester].append(data)
RECURSIVE organize_loop(_)
organize_loop(data_list) ==
    IF data_list = <<>> THEN <<>>
    ELSE LET n == Len(data_list)
             organized == organize_loop(SubSeq(data_list, 1, n - 1))
             data == data_list[n]
             academic_year == get_academic_year(data.Semester, data.Year)
         IN  IF academic_year = None THEN organized
             ELSE LET year_data == Get(organized, academic_year, <<>>)
                      courses   == Get(year_data, data.Semester, <<>>)
                  IN  Put(organized, academic_year,
                          Put(year_data, data.Semester, Append(courses, data)))

\* The terms left in insertion order (lines 135-138 missing).
sort_terms_skipped(year_data) == year_data

\* sorted(organized[academic_year].items(), key = term_order.get(x[0], 99))
sort_terms(year_data) ==
    StableSort([j \in 1..Len(year_data) |->
                  << <<term_order(year_data[j][1]), 0>>, year_data[j] >>])

organize_by_term(data_list) ==
    LET organized == organize_loop(data_list)
    IN  [j \in 1..Len(organized) |->
            <<organized[j][1], sort_terms(organized[j][2])>>]

----------------------------------------------------------------------------
(* Documents and the extractor                                             *)

\* int(text) of a string of decimal digits.
RECURSIVE ParseInt(_)
ParseInt(digits) ==
    IF digits = <<>> THEN 0
    ELSE LET n == Len(digits)
             d == (CHOOSE k \in 1..10 : Digits[k] = digits[n]) - 1
         IN  ParseInt(SubSeq(digits, 1, n - 1)) * 10 + d

\* The parser without the check of lines 146-147.
parse_without_container_check(content, filename) ==
    [ _filename     |-> filename,
      Semester      |-> IF content.semester # <<>>
                        THEN content.semester[1] ELSE "",
      Year          |-> IF content.semester # <<>>
                        THEN ParseInt(content.semester[2]) ELSE YearAbsent,
      Instructor    |-> content.instructor,
      _survey_items |-> extract_survey_items(content.section) ]

\* An uploaded document, as far as the batch driver reads it:
\*   kind       "raises" - read/decode or a conversion inside the parser raises
\*              "nopre"  - the text has no <pre> container
\*              "ok"     - the container is found and every conversion succeeds
\*   semester   the first "(Winter|Spring|Summer|Fall)\s+(\d{4})" match as
\*              <<name, digits>>, or <<>> when there is none
\*   instructor the "LASTNAME, FIRSTNAME" line, or "" (<<>>)
\*   section    the numbered list under "Instructor Survey Items:", or <<>>
parse_evaluation_content(content, filename) ==
    IF content.kind = "nopre" THEN NoneData
    ELSE [ _filename     |-> filename,
           Semester      |-> IF content.semester # <<>>
                             THEN content.semester[1] ELSE "",
           Year          |-> IF content.semester # <<>>
                             THEN ParseInt(content.semester[2]) ELSE YearAbsent,
           Instructor    |-> content.instructor,
           _survey_items |-> extract_survey_items(content.section) ]

\* data.copy() with '_survey_items' and '_filename' deleted.  `obj` is the
\* identity of the new dict object (equal dicts stay distinct objects).
data_copy(data, obj) ==
    [ obj        |-> obj,
      Semester   |-> data.Semester,
      Year       |-> data.Year,
      Instructor |-> data.Instructor ]

\* The commit without the "survey_items is None" test: the last document wins.
commit_last_wins(survey_items, data) == data._survey_items

\* Lines 288-289: the first parsed document sets survey_items.
commit_survey_items(survey_items, data) ==
    IF survey_items = NoneItems THEN data._survey_items ELSE survey_items

\* The fallback with the "survey_items is None" test alone.
resolve_only_none(survey_items) ==
    IF survey_items = NoneItems THEN DefaultSurveyItems ELSE survey_items

\* Lines 306-313.
resolve_survey_items(survey_items) ==
    IF survey_items = NoneItems \/ Len(survey_items) = 0
    THEN DefaultSurveyItems ELSE survey_items

----------------------------------------------------------------------------
(* Grouping and reports                                                    *)

\* Lines 318-323: by_instructor[instructor].append(data)
RECURSIVE group_by_instructor(_)
group_by_instructor(data_list) ==
    IF data_list = <<>> THEN <<>>
    ELSE LET n == Len(data_list)
             by_instructor == group_by_instructor(SubSeq(data_list, 1, n - 1))
             data == data_list[n]
         IN  Put(by_instructor, data.Instructor,
                 Append(Get(by_instructor, data.Instructor, <<>>), data))

\* The (instructor, academic_year, year_data) triples visited by the nested
\* loops of lines 326-331, in visiting order.
RECURSIVE report_groups(_)
report_groups(by_instructor) ==
    IF by_instructor = <<>> THEN <<>>
    ELSE LET n == Len(by_instructor)
             instructor == by_instructor[n][1]
             organized  == organize_by_term(by_instructor[n][2])
         IN  report_groups(SubSeq(by_instructor, 1, n - 1)) \o
             [j \in 1..Len(organized) |->
                 [ instructor    |-> instructor,
                   academic_year |-> organized[j][1],
                   year_data     |-> organized[j][2] ]]

WordChars ==
    { "A", "B", "C", "D", "E", "F", "G", "H", "I", "J", "K", "L", "M",
      "N", "O", "P", "Q", "R", "S", "T", "U", "V", "W", "X", "Y", "Z",
      "a", "b", "c", "d", "e", "f", "g", "h", "i", "j", "k", "l", "m",
      "n", "o", "p", "q", "r", "s", "t", "u", "v", "w", "x", "y", "z",
      "0", "1", "2", "3", "4", "5", "6", "7", "8", "9", "_" }

\* instructor_name.split(',')[0]
BeforeComma(s) ==
    IF \E j \in 1..Len(s) : s[j] = ","
    THEN SubSeq(s, 1, (CHOOSE j \in 1..Len(s) :
                          s[j] = "," /\ \A k \in 1..(j - 1) : s[k] # ",") - 1)
    ELSE s

\* str.strip() of a character sequence.
RECURSIVE StripChars(_)
StripChars(s) ==
    IF s = <<>> THEN s
    ELSE IF Head(s) = " " THEN StripChars(Tail(s))
    ELSE IF s[Len(s)] = " " THEN StripChars(SubSeq(s, 1, Len(s) - 1))
    ELSE s

IsFilenameChar(c) == c \in WordChars \cup {"-", "_"}

\* The file name built from the whole instructor field, without split(',').
filename_without_split(instructor_name, academic_year) ==
    LET lastname == IF instructor_name # <<>>
                    THEN StripChars(instructor_name)
                    ELSE <<"U", "N", "K", "N", "O", "W", "N">>
    IN  SelectSeq(lastname, IsFilenameChar) \o <<"_">> \o academic_year
            \o <<".", "p", "d", "f">>

generate_annual_pdf_filename(instructor_name, academic_year) ==
    LET lastname == IF instructor_name # <<>>
                    THEN StripChars(BeforeComma(instructor_name))
                    ELSE <<"U", "N", "K", "N", "O", "W", "N">>
    IN  SelectSeq(lastname, IsFilenameChar) \o <<"_">> \o academic_year
            \o <<".", "p", "d", "f">>

\* The term walk of generate_annual_pdf_report (lines 652-658): the terms of
\* term_order that are in year_data with a non-empty course list, each with
\* its number of courses.
report_term_order == <<"Fall", "Winter", "Spring", "Summer">>

generate_annual_pdf_report(year_data, instructor_name, academic_year) ==
    LET present(term) == HasKey(year_data, term) /\ Get(year_data, term, <<>>) # <<>>
        walked == SelectSeq(report_term_order, present)
    IN  [ instructor    |-> instructor_name,
          academic_year |-> academic_year,
          sections      |-> [j \in 1..Len(walked) |->
                                <<walked[j], Len(Get(year_data, walked[j], <<>>))>>] ]

\* sum(len(courses) for courses in year_data.values())
RECURSIVE total_courses(_)
total_courses(year_data) ==
    IF year_data = <<>> THEN 0
    ELSE Len(Head(year_data)[2]) + total_courses(Tail(year_data))

----------------------------------------------------------------------------
(* Tabular export                                                          *)

\* semester_order.get(semester, 99) of create_dataframe.
semester_order(semester) ==
    CASE semester = "Winter" -> 1
      [] semester = "Spring" -> 2
      [] semester = "Summer" -> 3
      [] semester = "Fall"   -> 4
      [] OTHER               -> 99

\* all_data.sort(key = (Year, semester order)) compares the keys as tuples.
\* Comparing a Year of '' with an integer Year raises TypeError; any sort
\* of a list holding both kinds must compare two such keys.
sort_raises(data_list) ==
    \E a, b \in 1..Len(data_list) :
        data_list[a].Year = YearAbsent /\ data_list[b].Year # YearAbsent

sort_by_year_and_semester(data_list) ==
    StableSort([j \in 1..Len(data_list) |->
                  << <<data_list[j].Year, semester_order(data_list[j].Semester)>>,
                     data_list[j] >>])

\* mapped_row of lines 355-362; `src` is the record the row was built from.
mapped_row(row) ==
    [ src        |-> row.obj,
      Semester   |-> row.Semester,
      Year       |-> row.Year,
      Instructor |-> row.Instructor ]

----------------------------------------------------------------------------
(* The batch                                                               *)

SemesterMatches ==
    { <<>>,
      <<"Fall",   <<"2", "0", "2", "2">>>>,
      <<"Winter", <<"2", "0", "2", "3">>>>,
      <<"Fall",   <<"2", "0", "2", "3">>>>,
      <<"Fall",   <<"0", "0", "0", "0">>>> }

InstructorLines == { <<>>, <<"L", "I", ",", " ", "A">> }

ItemSections ==
    { <<>>,
      << <<1, "Explains well.">>, <<2, "Is on time.">> >>,
      << <<1, "The instructor was fair.">> >> }

Documents ==
    [ kind : {"ok"}, semester : SemesterMatches,
      instructor : InstructorLines, section : ItemSections ]
    \cup
    [ kind : {"nopre", "raises"}, semester : {<<>>},
      instructor : {<<>>}, section : {<<>>} ]

Batches == UNION { [1..n -> Documents] : n \in 0..MaxFiles }

VARIABLES
    uploaded_files,        \* the batch handed to process_files
    pc,                    \* position in process_files / the main script
    i,                     \* index of the next document of the loop
    all_data,              \* flat Record list
    survey_items,          \* batch catalog (NoneItems until set)
    processed_count,
    error_count,
    groups,                \* (instructor, academic_year, year_data) triples
    r,                     \* index of the next group to render
    annual_pdf_data_list,  \* (pdf_bytes, filename, total_courses) tuples
    df,                    \* rows of the DataFrame built by create_dataframe
    call,                  \* arguments of a function evaluated on its own
    ret                    \* its result

vars == << uploaded_files, pc, i, all_data, survey_items, processed_count,
           error_count, groups, r, annual_pdf_data_list, df, call, ret >>

Init ==
    /\ uploaded_files \in Batches
    /\ pc = "loop"
    /\ i = 1
    /\ all_data = <<>>
    /\ survey_items = NoneItems
    /\ processed_count = 0
    /\ error_count = 0
    /\ groups = <<>>
    /\ r = 1
    /\ annual_pdf_data_list = <<>>
    /\ df = <<>>
    /\ call = <<>>
    /\ ret = <<>>

\* The iteration with a parser that keeps the last semester and year it
\* matched in a module-level variable and falls back on them.
ProcessParsed_SharedState ==
    /\ pc = "loop"
    /\ i <= Len(uploaded_files)
    /\ uploaded_files[i].kind # "raises"
    /\ LET data == parse_evaluation_content(uploaded_files[i], i)
           copy == data_copy(data, i)
       IN  /\ data # NoneData
           /\ survey_items' = commit_survey_items(survey_items, data)
           /\ all_data' =
                 Append(all_data,
                        IF copy.Year = YearAbsent /\ all_data # <<>>
                        THEN [ copy EXCEPT
                                 !.Semester = all_data[Len(all_data)].Semester,
                                 !.Year = all_data[Len(all_data)].Year ]
                        ELSE copy)
           /\ processed_count' = processed_count + 1
    /\ i' = i + 1
    /\ UNCHANGED << uploaded_files, pc, error_count, groups, r,
                    annual_pdf_data_list, df, call, ret >>

\* One iteration of the document loop (lines 282-303) on a document that is
\* read and parsed to a Record.
ProcessParsed ==
    /\ pc = "loop"
    /\ i <= Len(uploaded_files)
    /\ uploaded_files[i].kind # "raises"
    /\ LET data == parse_evaluation_content(uploaded_files[i], i)
       IN  /\ data # NoneData
           /\ survey_items' = commit_survey_items(survey_items, data)
           /\ all_data' = Append(all_data, data_copy(data, i))
           /\ processed_count' = processed_count + 1
    /\ i' = i + 1
    /\ UNCHANGED << uploaded_files, pc, error_count, groups, r,
                    annual_pdf_data_list, df, call, ret >>

\* The failure branches without "error_count += 1".
ProcessFailed_NoCount ==
    /\ pc = "loop"
    /\ i <= Len(uploaded_files)
    /\ \/ uploaded_files[i].kind = "raises"
       \/ parse_evaluation_content(uploaded_files[i], i) = NoneData
    /\ i' = i + 1
    /\ UNCHANGED << uploaded_files, pc, all_data, survey_items, processed_count,
                    error_count, groups, r, annual_pdf_data_list, df, call, ret >>

\* The failure branches with the success counter incremented as well.
ProcessFailed_CountsBoth ==
    /\ pc = "loop"
    /\ i <= Len(uploaded_files)
    /\ \/ uploaded_files[i].kind = "raises"
       \/ parse_evaluation_content(uploaded_files[i], i) = NoneData
    /\ error_count' = error_count + 1
    /\ processed_count' = processed_count + 1
    /\ i' = i + 1
    /\ UNCHANGED << uploaded_files, pc, all_data, survey_items,
                    groups, r, annual_pdf_data_list, df, call, ret >>

\* One iteration on a document without the container (line 300) or whose
\* reading or parsing raises (lines 301-303).
ProcessFailed ==
    /\ pc = "loop"
    /\ i <= Len(uploaded_files)
    /\ \/ uploaded_files[i].kind = "raises"
       \/ parse_evaluation_content(uploaded_files[i], i) = NoneData
    /\ error_count' = error_count + 1
    /\ i' = i + 1
    /\ UNCHANGED << uploaded_files, pc, all_data, survey_items, processed_count,
                    groups, r, annual_pdf_data_list, df, call, ret >>

\* Lines 305-313: the default catalog.
ResolveCatalog ==
    /\ pc = "loop"
    /\ i > Len(uploaded_files)
    /\ survey_items' = resolve_survey_items(survey_items)
    /\ pc' = "group"
    /\ UNCHANGED << uploaded_files, i, all_data, processed_count, error_count,
                    groups, r, annual_pdf_data_list, df, call, ret >>

\* Lines 316-328: group by instructor, then by academic year and term.
Group ==
    /\ pc = "group"
    /\ groups' = IF all_data # <<>>
                 THEN report_groups(group_by_instructor(all_data)) ELSE <<>>
    /\ r' = 1
    /\ pc' = "render"
    /\ UNCHANGED << uploaded_files, i, all_data, survey_items, processed_count,
                    error_count, annual_pdf_data_list, df, call, ret >>

\* Lines 332-337: the report of one group is built and appended.
RenderReport ==
    /\ pc = "render"
    /\ r <= Len(groups)
    /\ LET g == groups[r]
       IN  annual_pdf_data_list' =
             Append(annual_pdf_data_list,
                    << generate_annual_pdf_report(g.year_data, g.instructor,
                                                  g.academic_year),
                       generate_annual_pdf_filename(g.instructor, g.academic_year),
                       total_courses(g.year_data) >>)
    /\ r' = r + 1
    /\ UNCHANGED << uploaded_files, pc, i, all_data, survey_items,
                    processed_count, error_count, groups, df, call, ret >>

\* The render loop without the try/except of lines 332-339: the exception
\* leaves process_files.
RenderFails_Aborts ==
    /\ pc = "render"
    /\ r <= Len(groups)
    /\ pc' = "raised"
    /\ UNCHANGED << uploaded_files, i, all_data, survey_items, processed_count,
                    error_count, groups, r, annual_pdf_data_list, df, call, ret >>

\* Lines 338-339: building the report raises; a warning is shown.
RenderFails ==
    /\ pc = "render"
    /\ r <= Len(groups)
    /\ r' = r + 1
    /\ UNCHANGED << uploaded_files, pc, i, all_data, survey_items,
                    processed_count, error_count, groups, annual_pdf_data_list,
                    df, call, ret >>

\* Line 341.
Return ==
    /\ pc = "render"
    /\ r > Len(groups)
    /\ pc' = "returned"
    /\ UNCHANGED << uploaded_files, i, all_data, survey_items, processed_count,
                    error_count, groups, r, annual_pdf_data_list, df, call, ret >>

\* Main script, lines 1002-1004, with create_dataframe (lines 343-394): the
\* in-place sort of all_data, then one mapped row per record.
CreateDataframe ==
    /\ pc = "returned"
    /\ all_data # <<>>
    /\ ~sort_raises(all_data)
    /\ all_data' = sort_by_year_and_semester(all_data)
    /\ df' = [j \in 1..Len(all_data) |-> mapped_row(all_data'[j])]
    /\ pc' = "exported"
    /\ UNCHANGED << uploaded_files, i, survey_items, processed_count,
                    error_count, groups, r, annual_pdf_data_list, call, ret >>

\* The sort of line 350 raises TypeError; nothing between it and the top of
\* the script catches it.  A failed list.sort leaves the list holding the
\* same elements in an unspecified order.
CreateDataframeRaises ==
    /\ pc = "returned"
    /\ all_data # <<>>
    /\ sort_raises(all_data)
    /\ all_data' \in Orderings(all_data)
    /\ pc' = "raised"
    /\ UNCHANGED << uploaded_files, i, survey_items, processed_count,
                    error_count, groups, r, annual_pdf_data_list, df, call, ret >>

\* Main script, lines 1129-1130: no record was extracted.
NoData ==
    /\ pc = "returned"
    /\ all_data = <<>>
    /\ pc' = "nodata"
    /\ UNCHANGED << uploaded_files, i, all_data, survey_items, processed_count,
                    error_count, groups, r, annual_pdf_data_list, df, call, ret >>

Next ==
    \/ ProcessParsed
    \/ ProcessFailed
    \/ ResolveCatalog
    \/ Group
    \/ RenderReport
    \/ RenderFails
    \/ Return
    \/ CreateDataframe
    \/ CreateDataframeRaises
    \/ NoData

Spec == Init /\ [][Next]_vars

----------------------------------------------------------------------------
(* get_academic_year evaluated on its own                                  *)

SemesterArgs == {"Fall", "Winter", "Spring", "Summer", "", " ", "Autumn", "fall"}

YearArgs ==
    { YearAbsent, 0, 1, 9, 10, 99, 100, 999, 1000, 1999, 2000, 2022, 2023,
      9998, 9999 }

InitAcademicYear ==
    /\ uploaded_files = <<>>
    /\ pc = "call"
    /\ i = 1
    /\ all_data = <<>>
    /\ survey_items = NoneItems
    /\ processed_count = 0
    /\ error_count = 0
    /\ groups = <<>>
    /\ r = 1
    /\ annual_pdf_data_list = <<>>
    /\ df = <<>>
    /\ call \in SemesterArgs \X YearArgs
    /\ ret = None

CallAcademicYear ==
    /\ pc = "call"
    /\ ret' = get_academic_year(call[1], call[2])
    /\ pc' = "ret"
    /\ UNCHANGED << uploaded_files, i, all_data, survey_items, processed_count,
                    error_count, groups, r, annual_pdf_data_list, df, call >>

NextAcademicYear == CallAcademicYear

SpecAcademicYear == InitAcademicYear /\ [][NextAcademicYear]_vars

----------------------------------------------------------------------------
(* Item rows and the overall row of parse_evaluation_content               *)
(*                                                                         *)
(* The text inside the container is a sequence of non-blank lines; a line  *)
(* is the sequence of its whitespace-separated tokens and a token is a     *)
(* sequence of characters.  A float is <<m, d>>, standing for m / 10^d     *)
(* with no trailing zero in the fraction, so that 4.40 and 4.4 are equal.  *)

\* Largest number of lines of a text.
MaxLines == 2

DigitChars == { Digits[k] : k \in 1..10 }

\* \d+ on a whole token.
AllDigits(tok) == tok # <<>> /\ \A k \in 1..Len(tok) : tok[k] \in DigitChars

\* [\d.]+ on a whole token.
DigitsDots(tok) ==
    tok # <<>> /\ \A k \in 1..Len(tok) : tok[k] \in DigitChars \cup {"."}

\* (\d+)% on a whole token (the pattern goes on with \s+).
IsPct(tok) ==
    /\ Len(tok) >= 2
    /\ tok[Len(tok)] = "%"
    /\ AllDigits(SubSeq(tok, 1, Len(tok) - 1))

\* (\d+)% at the start of a token (the last group of a pattern).
StartsWithPct(tok) ==
    \E k \in 2..Len(tok) : tok[k] = "%" /\ AllDigits(SubSeq(tok, 1, k - 1))

\* int(match.group(k)) of a (\d+)% group.
PctValue(tok) ==
    LET k == CHOOSE j \in 2..Len(tok) :
                 tok[j] = "%" /\ AllDigits(SubSeq(tok, 1, j - 1))
    IN  ParseInt(SubSeq(tok, 1, k - 1))

IsDot(c) == c = "."

IsNotDot(c) == c # "."

\* float(s) raises ValueError for a [\d.]+ string with two or more dots or
\* with no digit.
FloatRaises(tok) ==
    \/ Len(SelectSeq(tok, IsDot)) > 1
    \/ SelectSeq(tok, IsNotDot) = <<>>

RECURSIVE Normalize(_, _)
Normalize(m, d) ==
    IF d > 0 /\ m % 10 = 0 THEN Normalize(m \div 10, d - 1) ELSE <<m, d>>

\* float(s) of a [\d.]+ string with at most one dot.
ParseFloat(tok) ==
    LET decimals == IF SelectSeq(tok, IsDot) = <<>> THEN 0
                    ELSE Len(tok) - (CHOOSE k \in 1..Len(tok) : tok[k] = ".")
    IN  Normalize(ParseInt(SelectSeq(tok, IsNotDot)), decimals)

\* re.match(item_pattern, line), line 210.
item_match(line) ==
    /\ Len(line) >= 11
    /\ AllDigits(line[1])
    /\ AllDigits(line[2])
    /\ DigitsDots(line[3])
    /\ DigitsDots(line[4])
    /\ AllDigits(line[5])
    /\ \A k \in 6..10 : IsPct(line[k])
    /\ StartsWithPct(line[11])

\* One of the float() calls of lines 215-216 raises.
item_raises(line) == FloatRaises(line[3]) \/ FloatRaises(line[4])

\* The dict appended at lines 212-224.
item_of(line) ==
    [ item          |-> ParseInt(line[1]),
      rank          |-> ParseInt(line[2]),
      mean          |-> ParseFloat(line[3]),
      sd            |-> ParseFloat(line[4]),
      n             |-> ParseInt(line[5]),
      pct           |-> [k \in 1..5 |-> PctValue(line[5 + k])],
      response_rate |-> PctValue(line[11]) ]

\* The loop of lines 208-225 raises on some matching line.
items_raise(lines) ==
    \E k \in 1..Len(lines) : item_match(lines[k]) /\ item_raises(lines[k])

\* The items list left in source order (line 228 missing).
parse_items_unsorted(lines) ==
    LET matched == SelectSeq(lines, item_match)
    IN  [k \in 1..Len(matched) |-> item_of(matched[k])]

\* The items list after the loop of lines 208-225 and the sort of line 228.
parse_items(lines) ==
    LET matched == SelectSeq(lines, item_match)
    IN  StableSort([k \in 1..Len(matched) |->
                       << <<item_of(matched[k]).item, 0>>, item_of(matched[k]) >>])

\* The result keys written only for the first row of an item number.
RECURSIVE item_keys_first_wins(_)
item_keys_first_wins(items) ==
    IF items = <<>> THEN <<>>
    ELSE LET n == Len(items)
             keys == item_keys_first_wins(SubSeq(items, 1, n - 1))
         IN  IF HasKey(keys, items[n].item) THEN keys
             ELSE Put(keys, items[n].item, items[n])

\* Lines 234-245: the result keys Item_<n>_*, as a dict item number -> values.
RECURSIVE item_keys(_)
item_keys(items) ==
    IF items = <<>> THEN <<>>
    ELSE LET n == Len(items)
         IN  Put(item_keys(SubSeq(items, 1, n - 1)), items[n].item, items[n])

\* text.split() of the whole text: \s of the overall pattern also matches
\* the line breaks.
RECURSIVE Tokens(_)
Tokens(lines) ==
    IF lines = <<>> THEN <<>> ELSE Head(lines) \o Tokens(Tail(lines))

EndsWith(tok, suffix) ==
    /\ Len(tok) >= Len(suffix)
    /\ SubSeq(tok, Len(tok) - Len(suffix) + 1, Len(tok)) = suffix

\* "Over\s*All\s+" found with "Over" in token p: the index of the token after
\* the label, or 0.
label_end(tokens, p) ==
    IF EndsWith(tokens[p], <<"O", "v", "e", "r", "A", "l", "l">>) THEN p + 1
    ELSE IF /\ EndsWith(tokens[p], <<"O", "v", "e", "r">>)
            /\ p + 1 <= Len(tokens)
            /\ tokens[p + 1] = <<"A", "l", "l">>
         THEN p + 2
    ELSE 0

\* The overall pattern with four (\d+)% groups.
overall_groups_four(tokens, p) ==
    LET q == label_end(tokens, p)
    IN  IF /\ q # 0
           /\ q + 6 <= Len(tokens)
           /\ DigitsDots(tokens[q])
           /\ DigitsDots(tokens[q + 1])
           /\ AllDigits(tokens[q + 2])
           /\ \A k \in 3..5 : IsPct(tokens[q + k])
           /\ StartsWithPct(tokens[q + 6])
        THEN SubSeq(tokens, q, q + 6)
        ELSE <<>>

\* overall_pattern (line 251) tried with its label in token p: the tokens of
\* its eight groups, or <<>> when it does not match there.
overall_groups(tokens, p) ==
    LET q == label_end(tokens, p)
    IN  IF /\ q # 0
           /\ q + 7 <= Len(tokens)
           /\ DigitsDots(tokens[q])
           /\ DigitsDots(tokens[q + 1])
           /\ AllDigits(tokens[q + 2])
           /\ \A k \in 3..6 : IsPct(tokens[q + k])
           /\ StartsWithPct(tokens[q + 7])
        THEN SubSeq(tokens, q, q + 7)
        ELSE <<>>

\* re.search(overall_pattern, text): the groups of the leftmost match, or <<>>.
overall_search(tokens) ==
    IF \E p \in 1..Len(tokens) : overall_groups(tokens, p) # <<>>
    THEN overall_groups(tokens,
            CHOOSE p \in 1..Len(tokens) :
               /\ overall_groups(tokens, p) # <<>>
               /\ \A p2 \in 1..(p - 1) : overall_groups(tokens, p2) = <<>>)
    ELSE <<>>

\* One of the float() calls of lines 254-255 raises.
overall_raises(tokens) ==
    LET g == overall_search(tokens)
    IN  g # <<>> /\ (FloatRaises(g[1]) \/ FloatRaises(g[2]))

\* Lines 253-270: the Overall_* keys, <<>> when they are all ''.  pct holds
\* the Overall_Pct_* values, one per (\d+)% group of the match.
overall_of(tokens) ==
    LET g == overall_search(tokens)
    IN  IF g = <<>> THEN <<>>
        ELSE << [ mean |-> ParseFloat(g[1]),
                  sd   |-> ParseFloat(g[2]),
                  n    |-> ParseInt(g[3]),
                  pct  |-> [k \in 1..(Len(g) - 3) |-> PctValue(g[3 + k])] ] >>

\* parse_evaluation_content as far as the statistics go.  content.pre tells
\* whether the <pre> container is found, content.lines is its text.
parse_statistics(content) ==
    IF ~content.pre
    THEN [ outcome |-> "None", items |-> <<>>, overall |-> <<>> ]
    ELSE IF items_raise(content.lines) \/ overall_raises(Tokens(content.lines))
    THEN [ outcome |-> "raises", items |-> <<>>, overall |-> <<>> ]
    ELSE [ outcome |-> "result",
           items   |-> item_keys(parse_items(content.lines)),
           overall |-> overall_of(Tokens(content.lines)) ]

ItemRow ==
    << <<"1">>,
       <<"1">>,
       <<"4", ".", "5", "0">>,
       <<"0", ".", "6", "0">>,
       <<"2", "5">>,
       <<"4", "0", "%">>,
       <<"4", "0", "%">>,
       <<"1", "0", "%">>,
       <<"5", "%">>,
       <<"5", "%">>,
       <<"9", "0", "%">> >>

ItemRowAbove100 ==
    << <<"2">>,
       <<"3">>,
       <<"3", ".", "9", "0">>,
       <<"1", ".", "1", "0">>,
       <<"2", "5">>,
       <<"1", "5", "0", "%">>,
       <<"4", "0", "%">>,
       <<"1", "0", "%">>,
       <<"5", "%">>,
       <<"5", "%">>,
       <<"9", "0", "%">> >>

ItemRowTwoDots ==
    << <<"3">>,
       <<"2">>,
       <<"1", ".", "2", ".", "3">>,
       <<"0", ".", "6", "0">>,
       <<"2", "5">>,
       <<"4", "0", "%">>,
       <<"4", "0", "%">>,
       <<"1", "0", "%">>,
       <<"5", "%">>,
       <<"5", "%">>,
       <<"9", "0", "%">> >>

ItemRowTenFields ==
    << <<"4">>,
       <<"4">>,
       <<"4", ".", "0", "0">>,
       <<"0", ".", "5", "0">>,
       <<"2", "5">>,
       <<"4", "0", "%">>,
       <<"4", "0", "%">>,
       <<"1", "0", "%">>,
       <<"5", "%">>,
       <<"5", "%">> >>

OverallFivePct ==
    << <<"O", "v", "e", "r">>,
       <<"A", "l", "l">>,
       <<"4", ".", "4", "0">>,
       <<"0", ".", "5", "5">>,
       <<"2", "5">>,
       <<"3", "5", "%">>,
       <<"4", "5", "%">>,
       <<"1", "2", "%">>,
       <<"5", "%">>,
       <<"3", "%">> >>

OverallFourPct ==
    << <<"O", "v", "e", "r">>,
       <<"A", "l", "l">>,
       <<"4", ".", "4", "0">>,
       <<"0", ".", "5", "5">>,
       <<"2", "5">>,
       <<"3", "5", "%">>,
       <<"4", "5", "%">>,
       <<"1", "2", "%">>,
       <<"5", "%">> >>

OverallTwoDots ==
    << <<"O", "v", "e", "r">>,
       <<"A", "l", "l">>,
       <<"1", ".", "2", ".", "3">>,
       <<"0", ".", "5", "5">>,
       <<"2", "5">>,
       <<"3", "5", "%">>,
       <<"4", "5", "%">>,
       <<"1", "2", "%">>,
       <<"5", "%">>,
       <<"3", "%">> >>

PctLine ==
    << <<"7", "%">>,
       <<"o", "t", "h", "e", "r">> >>

TermLine ==
    << <<"F", "a", "l", "l">>,
       <<"2", "0", "2", "2">> >>

\* A second row for item number 1.
ItemRowAgain ==
    << <<"1">>,
       <<"2">>,
       <<"3", ".", "0", "0">>,
       <<"1", ".", "0", "0">>,
       <<"2", "0">>,
       <<"1", "0", "%">>,
       <<"2", "0", "%">>,
       <<"3", "0", "%">>,
       <<"2", "0", "%">>,
       <<"2", "0", "%">>,
       <<"8", "0", "%">> >>

TextLines ==
    { ItemRow, ItemRowAgain, ItemRowAbove100, ItemRowTwoDots, ItemRowTenFields,
      OverallFivePct, OverallFourPct, OverallTwoDots, PctLine, TermLine }

Texts == UNION { [1..n -> TextLines] : n \in 0..MaxLines }

InitParseStatistics ==
    /\ uploaded_files = <<>>
    /\ pc = "call"
    /\ i = 1
    /\ all_data = <<>>
    /\ survey_items = NoneItems
    /\ processed_count = 0
    /\ error_count = 0
    /\ groups = <<>>
    /\ r = 1
    /\ annual_pdf_data_list = <<>>
    /\ df = <<>>
    /\ call \in [ pre : BOOLEAN, lines : Texts ]
    /\ ret = [ outcome |-> "", items |-> <<>>, overall |-> <<>> ]

CallParseStatistics ==
    /\ pc = "call"
    /\ ret' = parse_statistics(call)
    /\ pc' = "ret"
    /\ UNCHANGED << uploaded_files, i, all_data, survey_items, processed_count,
                    error_count, groups, r, annual_pdf_data_list, df, call >>

NextParseStatistics == CallParseStatistics

SpecParseStatistics == InitParseStatistics /\ [][NextParseStatistics]_vars

----------------------------------------------------------------------------
(* Chart summaries: create_term_chart and create_overall_trend_chart       *)
(*                                                                         *)
(* A value read with course.get(key, '') is a record: kind "num" with the  *)
(* number v in hundredths, kind "empty" for '' (or a missing key), kind    *)
(* "None", kind "str" for any other non-number.  sum(values) / len(values) *)
(* is the fraction <<p, q>> in lowest terms, in hundredths; 0 is <<0, 1>>. *)

\* Largest number of courses of a term.
MaxCourses == 3

Num(v) == [ kind |-> "num", v |-> v ]

Empty == [ kind |-> "empty", v |-> 0 ]

NoneValue == [ kind |-> "None", v |-> 0 ]

StrValue == [ kind |-> "str", v |-> 0 ]

\* mean != '' and mean is not None and isinstance(mean, (int, float))
usable(mean) == mean.kind \notin {"empty", "None"} /\ mean.kind = "num"

RECURSIVE GCD(_, _)
GCD(a, b) == IF b = 0 THEN a ELSE GCD(b, a % b)

RECURSIVE Sum(_)
Sum(values) == IF values = <<>> THEN 0 ELSE Head(values) + Sum(Tail(values))

\* The inner loop with every course's value appended, '' and None as 0.
RECURSIVE usable_means_unfiltered(_, _)
usable_means_unfiltered(term_data, item_num) ==
    IF term_data = <<>> THEN <<>>
    ELSE LET n == Len(term_data)
             mean == term_data[n][item_num]
         IN  Append(usable_means_unfiltered(SubSeq(term_data, 1, n - 1), item_num),
                    mean.v)

\* Lines 413-417: the usable Item_<item_num>_Mean values of the courses.
RECURSIVE usable_means(_, _)
usable_means(term_data, item_num) ==
    IF term_data = <<>> THEN <<>>
    ELSE LET n == Len(term_data)
             values == usable_means(SubSeq(term_data, 1, n - 1), item_num)
             mean == term_data[n][item_num]
         IN  IF usable(mean) THEN Append(values, mean.v) ELSE values

\* Lines 418-421: sum(values) / len(values) if values else 0
average(values) ==
    IF values # <<>>
    THEN LET g == GCD(Sum(values), Len(values))
         IN  << Sum(values) \div g, Len(values) \div g >>
    ELSE <<0, 1>>

\* item_means of create_term_chart (lines 411-421); a course is the tuple of
\* its Item_1_Mean .. Item_5_Mean values.
item_means(term_data) ==
    [item_num \in 1..5 |-> average(usable_means(term_data, item_num))]

Courses ==
    { <<Empty, Empty, Empty, Empty, Empty>>,
      <<Num(450), Num(450), Num(450), Num(450), Num(450)>>,
      <<Num(400), Num(325), Empty, NoneValue, Num(500)>>,
      <<Num(425), Empty, Empty, Num(300), StrValue>>,
      <<Num(0), Num(100), NoneValue, Num(475), Empty>>,
      <<Num(333), Num(250), StrValue, Empty, Num(417)>> }

TermData == UNION { [1..n -> Courses] : n \in 0..MaxCourses }

InitTermChart ==
    /\ uploaded_files = <<>>
    /\ pc = "call"
    /\ i = 1
    /\ all_data = <<>>
    /\ survey_items = NoneItems
    /\ processed_count = 0
    /\ error_count = 0
    /\ groups = <<>>
    /\ r = 1
    /\ annual_pdf_data_list = <<>>
    /\ df = <<>>
    /\ call \in TermData
    /\ ret = <<>>

CallTermChart ==
    /\ pc = "call"
    /\ ret' = item_means(call)
    /\ pc' = "ret"
    /\ UNCHANGED << uploaded_files, i, all_data, survey_items, processed_count,
                    error_count, groups, r, annual_pdf_data_list, df, call >>

NextTermChart == CallTermChart

SpecTermChart == InitTermChart /\ [][NextTermChart]_vars

\* Lines 474-478: the usable Overall_Mean values of a term's courses; a
\* course is its Overall_Mean value.
RECURSIVE usable_overall(_)
usable_overall(term_courses) ==
    IF term_courses = <<>> THEN <<>>
    ELSE LET n == Len(term_courses)
             values == usable_overall(SubSeq(term_courses, 1, n - 1))
             overall == term_courses[n]
         IN  IF usable(overall) THEN Append(values, overall.v) ELSE values

\* The loop of lines 471-481 over the terms of `order`: the (term, mean)
\* pairs appended to terms and overall_means.
RECURSIVE trend_points(_, _)
trend_points(year_data, order) ==
    IF order = <<>> THEN <<>>
    ELSE LET n == Len(order)
             term == order[n]
             points == trend_points(year_data, SubSeq(order, 1, n - 1))
             values == usable_overall(Get(year_data, term, <<>>))
         IN  IF HasKey(year_data, term) /\ Get(year_data, term, <<>>) # <<>>
                /\ values # <<>>
             THEN Append(points, <<term, average(values)>>)
             ELSE points

\* The chart drawn even for a single point.
trend_result_one_point(points) ==
    IF Len(points) < 1
    THEN [ none |-> TRUE, terms |-> <<>>, overall_means |-> <<>> ]
    ELSE [ none          |-> FALSE,
           terms         |-> [k \in 1..Len(points) |-> points[k][1]],
           overall_means |-> [k \in 1..Len(points) |-> points[k][2]] ]

\* Lines 483-484: None when len(terms) < 2, else the chart of terms against
\* overall_means.
trend_result(points) ==
    IF Len(points) < 2
    THEN [ none |-> TRUE, terms |-> <<>>, overall_means |-> <<>> ]
    ELSE [ none          |-> FALSE,
           terms         |-> [k \in 1..Len(points) |-> points[k][1]],
           overall_means |-> [k \in 1..Len(points) |-> points[k][2]] ]

\* create_overall_trend_chart (lines 465-484), term_order of line 467.
create_overall_trend_chart(year_data) ==
    trend_result(trend_points(year_data,
                              <<"Fall", "Winter", "Spring", "Summer">>))

\* The course lists a term of year_data can hold.
TermCourses ==
    { <<>>, <<Empty>>, <<Num(400)>>, <<Num(450), Empty>>,
      <<Num(300), Num(425)>>, <<NoneValue, StrValue>> }

\* The orders in which the keys of year_data were inserted.
KeyOrders ==
    { <<"Fall", "Winter", "Spring", "Summer", "Autumn">>,
      <<"Autumn", "Summer", "Spring", "Winter", "Fall">> }

\* The dict with the keys of `keys`, inserted in the order `order`.
YearData(order, keys, courses) ==
    LET present(term) == term \in keys
        inserted == SelectSeq(order, present)
    IN  [k \in 1..Len(inserted) |->
            << inserted[k],
               IF inserted[k] = "Autumn" THEN <<Num(475)>>
               ELSE courses[inserted[k]] >>]

YearDatas ==
    { YearData(order, keys, courses) :
        order \in KeyOrders,
        keys \in SUBSET {"Fall", "Winter", "Spring", "Summer", "Autumn"},
        courses \in [ {"Fall", "Winter", "Spring", "Summer"} -> TermCourses ] }

InitTrendChart ==
    /\ uploaded_files = <<>>
    /\ pc = "call"
    /\ i = 1
    /\ all_data = <<>>
    /\ survey_items = NoneItems
    /\ processed_count = 0
    /\ error_count = 0
    /\ groups = <<>>
    /\ r = 1
    /\ annual_pdf_data_list = <<>>
    /\ df = <<>>
    /\ call \in YearDatas
    /\ ret = [ none |-> TRUE, terms |-> <<>>, overall_means |-> <<>> ]

CallTrendChart ==
    /\ pc = "call"
    /\ ret' = create_overall_trend_chart(call)
    /\ pc' = "ret"
    /\ UNCHANGED << uploaded_files, i, all_data, survey_items, processed_count,
                    error_count, groups, r, annual_pdf_data_list, df, call >>

NextTrendChart == CallTrendChart

SpecTrendChart == InitTrendChart /\ [][NextTrendChart]_vars

----------------------------------------------------------------------------
(* create_short_name; a str is the sequence of its characters              *)

\* Largest number of pieces a drawn description is put together from.
MaxPieces == 3

\* item_mapping of lines 46-52.
item_mapping ==
    << << << "T", "h", "e", " ", "i", "n", "s", "t", "r", "u", "c", "t", "o", "r",
          " ", "e", "x", "p", "l", "a", "i", "n", "e", "d", " ", "c", "o", "n",
          "c", "e", "p", "t", "s", " ", "c", "l", "e", "a", "r", "l", "y", "." >>,
          << "E", "x", "p", "l", "a", "i", "n", "e", "d", " ", "c", "l", "e", "a",
          "r", "l", "y" >> >>,
       << << "T", "h", "e", " ", "i", "n", "s", "t", "r", "u", "c", "t", "o", "r",
          " ", "u", "s", "e", "d", " ", "e", "f", "f", "e", "c", "t", "i", "v",
          "e", " ", "t", "e", "a", "c", "h", "i", "n", "g", " ", "m", "e", "t",
          "h", "o", "d", "s", "." >>,
          << "E", "f", "f", "e", "c", "t", "i", "v", "e", " ", "t", "e", "a", "c",
          "h", "i", "n", "g", " ", "m", "e", "t", "h", "o", "d", "s" >> >>,
       << << "T", "h", "e", " ", "i", "n", "s", "t", "r", "u", "c", "t", "o", "r",
          " ", "i", "n", "t", "e", "r", "a", "c", "t", "e", "d", " ", "w", "i",
          "t", "h", " ", "s", "t", "u", "d", "e", "n", "t", "s", " ", "i", "n",
          " ", "a", " ", "r", "e", "s", "p", "e", "c", "t", "f", "u", "l", ",",
          " ", "p", "r", "o", "f", "e", "s", "s", "i", "o", "n", "a", "l", " ",
          "m", "a", "n", "n", "e", "r", "." >>,
          << "R", "e", "s", "p", "e", "c", "t", "f", "u", "l", " ", "i", "n", "t",
          "e", "r", "a", "c", "t", "i", "o", "n" >> >>,
       << << "T", "h", "e", " ", "i", "n", "s", "t", "r", "u", "c", "t", "o", "r",
          " ", "w", "a", "s", " ", "k", "n", "o", "w", "l", "e", "d", "g", "e",
          "a", "b", "l", "e", " ", "i", "n", " ", "t", "h", "e", " ", "s", "u",
          "b", "j", "e", "c", "t", " ", "a", "r", "e", "a", "." >>,
          << "K", "n", "o", "w", "l", "e", "d", "g", "e", "a", "b", "l", "e" >> >>,
       << << "O", "v", "e", "r", "a", "l", "l", ",", " ", "I", " ", "r", "a", "t",
          "e", " ", "t", "h", "e", " ", "i", "n", "s", "t", "r", "u", "c", "t",
          "o", "r", " ", "h", "i", "g", "h", "l", "y", "." >>,
          << "O", "v", "e", "r", "a", "l", "l", " ", "r", "a", "t", "i", "n", "g" >> >> >>

LowerLetters ==
    << "a", "b", "c", "d", "e", "f", "g", "h", "i", "j", "k", "l", "m",
       "n", "o", "p", "q", "r", "s", "t", "u", "v", "w", "x", "y", "z" >>

UpperLetters ==
    << "A", "B", "C", "D", "E", "F", "G", "H", "I", "J", "K", "L", "M",
       "N", "O", "P", "Q", "R", "S", "T", "U", "V", "W", "X", "Y", "Z" >>

\* str.upper() of one character.
Upper(c) ==
    IF \E k \in 1..26 : LowerLetters[k] = c
    THEN UpperLetters[CHOOSE k \in 1..26 : LowerLetters[k] = c]
    ELSE c

\* s.replace(old, ''): every non-overlapping occurrence, left to right.
RECURSIVE Remove(_, _)
Remove(s, old) ==
    IF Len(s) < Len(old) THEN s
    ELSE IF SubSeq(s, 1, Len(old)) = old
         THEN Remove(SubSeq(s, Len(old) + 1, Len(s)), old)
    ELSE <<Head(s)>> \o Remove(Tail(s), old)

\* s.rstrip('.')
RECURSIVE RStripDots(_)
RStripDots(s) ==
    IF s # <<>> /\ s[Len(s)] = "." THEN RStripDots(SubSeq(s, 1, Len(s) - 1))
    ELSE s

TheInstructor ==
    << "T", "h", "e", " ", "i", "n", "s", "t", "r", "u", "c", "t", "o", "r",
       " " >>

theInstructor ==
    << "t", "h", "e", " ", "i", "n", "s", "t", "r", "u", "c", "t", "o", "r",
       " " >>

\* Line 59: .replace('The instructor ', '').replace('the instructor ', '')
remove_instructor(full_text) ==
    Remove(Remove(full_text, TheInstructor), theInstructor)

\* Lines 63-64.
capitalize_first(short) ==
    IF short # <<>>
    THEN IF Len(short) > 1 THEN <<Upper(short[1])>> \o Tail(short)
         ELSE [k \in 1..Len(short) |-> Upper(short[k])]
    ELSE short

create_short_name(full_text) ==
    IF HasKey(item_mapping, full_text) THEN Get(item_mapping, full_text, <<>>)
    ELSE capitalize_first(RStripDots(remove_instructor(full_text)))

\* Pieces the drawn descriptions are put together from.
Pieces ==
    { TheInstructor, theInstructor,
      << "w", "a", "s", " ", "f", "a", "i", "r" >>,
      <<".">>, <<"x">>, <<" ">> }

RECURSIVE Concat(_)
Concat(pieces) ==
    IF pieces = <<>> THEN <<>> ELSE Head(pieces) \o Concat(Tail(pieces))

Descriptions ==
    { item_mapping[k][1] : k \in 1..Len(item_mapping) }
    \cup { Concat(pieces) :
             pieces \in UNION { [1..n -> Pieces] : n \in 0..MaxPieces } }

InitShortName ==
    /\ uploaded_files = <<>>
    /\ pc = "call"
    /\ i = 1
    /\ all_data = <<>>
    /\ survey_items = NoneItems
    /\ processed_count = 0
    /\ error_count = 0
    /\ groups = <<>>
    /\ r = 1
    /\ annual_pdf_data_list = <<>>
    /\ df = <<>>
    /\ call \in Descriptions
    /\ ret = <<>>

CallShortName ==
    /\ pc = "call"
    /\ ret' = create_short_name(call)
    /\ pc' = "ret"
    /\ UNCHANGED << uploaded_files, i, all_data, survey_items, processed_count,
                    error_count, groups, r, annual_pdf_data_list, df, call >>

NextShortName == CallShortName

SpecShortName == InitShortName /\ [][NextShortName]_vars

----------------------------------------------------------------------------
(* generate_annual_pdf_filename evaluated on its own                       *)

\* Largest number of characters of a drawn instructor field.
MaxNameLen == 3

NameChars == { "L", "i", ",", " ", "-", "'", "_" }

InstructorNames == UNION { [1..n -> NameChars] : n \in 0..MaxNameLen }

AcademicYears ==
    { <<"2", "0", "2", "2", "-", "2", "0", "2", "3">>,
      <<"2", "0", "2", "3", "-", "2", "0", "2", "4">> }

InitFilename ==
    /\ uploaded_files = <<>>
    /\ pc = "call"
    /\ i = 1
    /\ all_data = <<>>
    /\ survey_items = NoneItems
    /\ processed_count = 0
    /\ error_count = 0
    /\ groups = <<>>
    /\ r = 1
    /\ annual_pdf_data_list = <<>>
    /\ df = <<>>
    /\ call \in InstructorNames \X AcademicYears
    /\ ret = <<>>

CallFilename ==
    /\ pc = "call"
    /\ ret' = generate_annual_pdf_filename(call[1], call[2])
    /\ pc' = "ret"
    /\ UNCHANGED << uploaded_files, i, all_data, survey_items, processed_count,
                    error_count, groups, r, annual_pdf_data_list, df, call >>

NextFilename == CallFilename

SpecFilename == InitFilename /\ [][NextFilename]_vars

----------------------------------------------------------------------------
(* The file names of two groups of one batch (process_files, lines 326-334)*)

\* Instructor values the parser can store: '' or a "LASTNAME, FIRSTNAME" line.
InstructorFields ==
    { <<>>,
      <<"L", "I", ",", " ", "A">>,
      <<"L", "I", ",", " ", "B">>,
      <<"L", "E", "E", ",", " ", "A">>,
      <<"U", "N", "K", "N", "O", "W", "N", ",", " ", "A">> }

\* The keys of two groups of one batch: by_instructor and organized are
\* dicts, so two groups differ in instructor or in academic year.
GroupPairs ==
    { p \in (InstructorFields \X AcademicYears) \X (InstructorFields \X AcademicYears) :
        p[1] # p[2] }

InitReportNames ==
    /\ uploaded_files = <<>>
    /\ pc = "call"
    /\ i = 1
    /\ all_data = <<>>
    /\ survey_items = NoneItems
    /\ processed_count = 0
    /\ error_count = 0
    /\ groups = <<>>
    /\ r = 1
    /\ annual_pdf_data_list = <<>>
    /\ df = <<>>
    /\ call \in GroupPairs
    /\ ret = <<>>

\* Line 334 for each of the two groups.
CallReportNames ==
    /\ pc = "call"
    /\ ret' = [g \in 1..2 |->
                 generate_annual_pdf_filename(call[g][1], call[g][2])]
    /\ pc' = "ret"
    /\ UNCHANGED << uploaded_files, i, all_data, survey_items, processed_count,
                    error_count, groups, r, annual_pdf_data_list, df, call >>

NextReportNames == CallReportNames

SpecReportNames == InitReportNames /\ [][NextReportNames]_vars

----------------------------------------------------------------------------
(* Properties                                                              *)

\* process_files has returned.
Returned == pc \in {"returned", "exported", "raised", "nodata"}

\* Document k parses to a Record.
Parses(k) == uploaded_files[k].kind = "ok"

\* The catalog found in the text of document k.
CatalogOf(k) == extract_survey_items(uploaded_files[k].section)

\* Indices of the documents that parse and carry a non-empty catalog.
WithCatalog == { k \in 1..Len(uploaded_files) : Parses(k) /\ CatalogOf(k) # <<>> }

\* C1: the committed catalog is the catalog of the lowest-index document
\* whose extracted catalog is non-empty; parsed documents with an empty
\* catalog and failed documents before it do not prevent that.
C1_FirstNonEmptyCatalogWins ==
    (Returned /\ WithCatalog # {}) =>
        survey_items = CatalogOf(CHOOSE k \in WithCatalog :
                                    \A m \in WithCatalog : k <= m)

\* C2: catalog determinism.  With D1 (non-empty catalog A) first and D2
\* (non-empty catalog B) after it, process_files returns A whatever B is.
C2_CatalogDeterminism ==
    (Returned /\ 1 \in WithCatalog /\ WithCatalog \ {1} # {}) =>
        survey_items = CatalogOf(1)

C2_Witness ==
    /\ Returned
    /\ {1, 2} \subseteq WithCatalog
    /\ CatalogOf(1) # CatalogOf(2)
    /\ survey_items = CatalogOf(1)

\* C3: no exception escapes process_files followed by create_dataframe.
C3_NoExceptionEscapes == pc # "raised"

\* C4: after process_files, processed_count is the number of documents that
\* hold the container and parse to a Record, error_count the number of the
\* others, and the flat Record list has processed_count entries.
C4_Counts ==
    Returned =>
        /\ processed_count =
              Cardinality({k \in 1..Len(uploaded_files) : Parses(k)})
        /\ error_count =
              Cardinality({k \in 1..Len(uploaded_files) : ~Parses(k)})
        /\ Len(all_data) = processed_count

C4_Witness ==
    /\ Returned
    /\ processed_count >= 1
    /\ error_count >= 1
    /\ \E k \in 1..Len(uploaded_files) : uploaded_files[k].kind = "nopre"

\* C5: a document without the container, or whose reading or parsing raises,
\* adds one to error_count, leaves the Record list, processed_count and the
\* catalog as they are, and the loop goes on to the next document.
C5_FailedDocumentFrame ==
    [][ (pc = "loop" /\ i <= Len(uploaded_files) /\ ~Parses(i)) =>
            /\ error_count' = error_count + 1
            /\ all_data' = all_data
            /\ processed_count' = processed_count
            /\ survey_items' = survey_items
            /\ pc' = "loop"
            /\ i' = i + 1 ]_vars

C5_Witness ==
    /\ Returned
    /\ Len(uploaded_files) >= 2
    /\ ~Parses(1)
    /\ Parses(2)
    /\ error_count = 1
    /\ all_data # <<>>
    /\ all_data[Len(all_data)].obj = 2

\* The grouping of process_files has been built.
Grouped == pc \in {"render", "returned", "exported", "raised", "nodata"}

\* The academic year the code resolves for a record.
AcademicYearOf(d) == get_academic_year(d.Semester, d.Year)

\* Every place <<group, term, position>> of the grouped structure, the
\* record stored there and the (instructor, academic year, term) of its bucket.
Slots ==
    UNION { UNION { { <<g, t, c>> : c \in 1..Len(groups[g].year_data[t][2]) } :
                    t \in 1..Len(groups[g].year_data) } :
            g \in 1..Len(groups) }

SlotRecord(s) == groups[s[1]].year_data[s[2]][2][s[3]]

SlotKey(s) ==
    << groups[s[1]].instructor, groups[s[1]].academic_year,
       groups[s[1]].year_data[s[2]][1] >>

\* C6: grouping is a partition.  Every record whose (semester, year) resolves
\* to an academic year is in exactly one (instructor, academic year, term)
\* bucket, the one of its own instructor, year and term; no record is in two
\* buckets and no two buckets share a key.
C6_GroupingIsPartition ==
    Grouped =>
        LET slots == Slots
        IN  /\ \A j \in 1..Len(all_data) :
                  AcademicYearOf(all_data[j]) # None =>
                     \E s \in slots :
                        /\ SlotRecord(s) = all_data[j]
                        /\ SlotKey(s) = << all_data[j].Instructor,
                                           AcademicYearOf(all_data[j]),
                                           all_data[j].Semester >>
            /\ \A s1, s2 \in slots :
                  \/ s1 = s2
                  \/ /\ SlotRecord(s1).obj # SlotRecord(s2).obj
                     /\ (s1[1] # s2[1] \/ s1[2] # s2[2]) => SlotKey(s1) # SlotKey(s2)

C6_Witness ==
    /\ Grouped
    /\ Len(all_data) = 2
    /\ \A j \in 1..Len(all_data) : AcademicYearOf(all_data[j]) # None
    /\ all_data[1].Instructor # all_data[2].Instructor
    /\ Cardinality({SlotKey(s) : s \in Slots}) = 2

\* C7: a parsed record whose academic year is absent is in no grouped
\* bucket, and stays in the flat Record list that process_files returns and
\* the main script hands to create_dataframe; the export that is built has
\* its row.
C7_AbsentYearKeptFlat ==
    LET slots == IF Grouped THEN Slots ELSE {}
    IN  \A k \in 1..Len(uploaded_files) :
            (k < i /\ Parses(k)) =>
                LET d == data_copy(parse_evaluation_content(uploaded_files[k], k), k)
                IN  AcademicYearOf(d) = None =>
                       /\ \E j \in 1..Len(all_data) : all_data[j] = d
                       /\ \A s \in slots : SlotRecord(s).obj # k
                       /\ pc = "exported" =>
                             \E j \in 1..Len(df) : df[j] = mapped_row(d)

C7_Witness ==
    /\ pc = "exported"
    /\ groups # <<>>
    /\ \E j \in 1..Len(all_data) :
          /\ AcademicYearOf(all_data[j]) = None
          /\ \A s \in Slots : SlotRecord(s).obj # all_data[j].obj
          /\ \E k \in 1..Len(df) : df[k].src = all_data[j].obj

\* The order of the terms in a report.
ReportOrder == <<"Fall", "Winter", "Spring", "Summer">>

ReportRank(term) == CHOOSE k \in 1..4 : ReportOrder[k] = term

\* The group a report file was built for.
GroupOfReport(e) ==
    CHOOSE g \in 1..Len(groups) :
        /\ groups[g].instructor = e[1].instructor
        /\ groups[g].academic_year = e[1].academic_year

\* C10: in every academic-year group the terms present are in the order Fall,
\* Winter, Spring, Summer whatever the arrival order of their records, and
\* every report walks the terms of its group in that same order.
C10_TermOrder ==
    Grouped =>
        /\ \A g \in 1..Len(groups) :
              LET yd == groups[g].year_data
              IN  /\ \A t \in 1..Len(yd) : yd[t][1] \in {"Fall", "Winter", "Spring", "Summer"}
                  /\ \A t1, t2 \in 1..Len(yd) :
                        t1 < t2 => ReportRank(yd[t1][1]) < ReportRank(yd[t2][1])
        /\ \A n \in 1..Len(annual_pdf_data_list) :
              LET e  == annual_pdf_data_list[n]
                  yd == groups[GroupOfReport(e)].year_data
              IN  [t \in 1..Len(e[1].sections) |-> e[1].sections[t][1]]
                     = [t \in 1..Len(yd) |-> yd[t][1]]

\* Two terms of one academic year that arrived Winter first, Fall second,
\* and the report built for them.
C10_Witness ==
    /\ Grouped
    /\ Len(all_data) = 2
    /\ all_data[1].obj = 1
    /\ all_data[1].Semester = "Winter"
    /\ all_data[2].Semester = "Fall"
    /\ Len(groups) = 1
    /\ Len(groups[1].year_data) = 2
    /\ Len(annual_pdf_data_list) = 1

\* The flat term order of the export; a record without a term comes last.
ExportRank(semester) ==
    CASE semester = "Winter" -> 1
      [] semester = "Spring" -> 2
      [] semester = "Summer" -> 3
      [] semester = "Fall"   -> 4
      [] OTHER               -> 99

\* C9: once create_dataframe has been run on the flat Record list, its
\* output holds the records sorted by year ascending and, within a year,
\* Winter < Spring < Summer < Fall, and is a permutation of the records it
\* was given.
C9_SortedExport ==
    pc \in {"exported", "raised"} =>
        /\ Len(df) = Len(all_data)
        /\ \A k \in 1..Len(uploaded_files) :
              Parses(k) => Cardinality({j \in 1..Len(df) : df[j].src = k}) = 1
        /\ \A a, b \in 1..Len(df) :
              a < b =>
                 \/ df[a].Year < df[b].Year
                 \/ /\ df[a].Year = df[b].Year
                    /\ ExportRank(df[a].Semester) <= ExportRank(df[b].Semester)

\* C8: for every year Y the parser can produce (0000..9999), Fall gives
\* "Y-(Y+1)" and Winter, Spring, Summer give "(Y-1)-Y"; any other semester,
\* or a missing year, gives no academic year.
C8_AcademicYear ==
    pc = "ret" =>
        LET semester == call[1]
            Y        == call[2]
        IN  IF Y = YearAbsent THEN ret = None
            ELSE IF semester = "Fall"
                 THEN ret = Str(Y) \o <<"-">> \o Str(Y + 1)
            ELSE IF semester \in {"Winter", "Spring", "Summer"}
                 THEN ret = Str(Y - 1) \o <<"-">> \o Str(Y)
            ELSE ret = None

\* C11: within each (instructor, academic year, term) bucket the records are
\* in arrival order: of two records of one bucket, the one whose document
\* comes first in the batch comes first in the bucket.
C11_ArrivalOrder ==
    Grouped =>
        LET slots == Slots
        IN  \A s1, s2 \in slots :
               (s1[1] = s2[1] /\ s1[2] = s2[2]) =>
                  (s1[3] < s2[3] <=> SlotRecord(s1).obj < SlotRecord(s2).obj)

\* Two documents of one instructor, academic year and term in one bucket.
C11_Witness ==
    /\ Grouped
    /\ Len(groups) = 1
    /\ Len(groups[1].year_data) = 1
    /\ Len(groups[1].year_data[1][2]) = 2
    /\ groups[1].year_data[1][2][1].obj = 1
    /\ groups[1].year_data[1][2][2].obj = 2

\* The entry appended to the result list for group g.
ReportOf(g) ==
    << generate_annual_pdf_report(g.year_data, g.instructor, g.academic_year),
       generate_annual_pdf_filename(g.instructor, g.academic_year),
       total_courses(g.year_data) >>

\* C12: per-artifact isolation.  A step of the render loop on a group either
\* appends that group's report or, when building it fails, leaves the result
\* list as it is; either way the loop goes on to the next group, and the flat
\* Record list, the counts and the catalog are not touched.
C12_ReportIsolation ==
    [][ (pc = "render" /\ r <= Len(groups)) =>
            /\ \/ annual_pdf_data_list' = annual_pdf_data_list
               \/ annual_pdf_data_list' =
                     Append(annual_pdf_data_list, ReportOf(groups[r]))
            /\ pc' = "render"
            /\ r' = r + 1
            /\ groups' = groups
            /\ all_data' = all_data
            /\ processed_count' = processed_count
            /\ error_count' = error_count
            /\ survey_items' = survey_items ]_vars

\* The report of the first of two groups failed and the report of the second
\* was built; both records are in the flat list.
C12_Witness ==
    /\ pc = "returned"
    /\ Len(groups) = 2
    /\ annual_pdf_data_list = << ReportOf(groups[2]) >>
    /\ Len(all_data) = 2
    /\ processed_count = 2

\* C13: parse_evaluation_content returns a Record for every input that holds
\* the container and never raises; a malformed numeric token leaves its
\* field absent.
C13_ParserNeverRaises ==
    (pc = "ret" /\ call.pre) => ret.outcome = "result"

\* The stored overall block of an accepted "Over All" row.
OverallBlock(pct) ==
    << [ mean |-> <<44, 1>>, sd |-> <<55, 2>>, n |-> 25, pct |-> pct ] >>

\* The text has no line from which float() raises.
NoTwoDots ==
    \A k \in 1..Len(call.lines) :
        call.lines[k] \notin {ItemRowTwoDots, OverallTwoDots}

C15_PercentagesInRange ==
    (pc = "ret" /\ ret.outcome = "result") =>
        \A k \in 1..Len(ret.items) :
            LET item == ret.items[k][2]
            IN  /\ item.n \in Nat
                /\ item.response_rate \in Nat
                /\ \A j \in 1..5 : item.pct[j] \in 0..100

\* The sum of the Item_<item_num>_Mean values of the courses at positions S.
RECURSIVE MeanTotal(_, _)
MeanTotal(S, item_num) ==
    IF S = {} THEN 0
    ELSE LET k == CHOOSE j \in S : TRUE
         IN  call[k][item_num].v + MeanTotal(S \ {k}, item_num)

\* C16: for each item number 1..5, the per-item mean of a term is the
\* arithmetic mean of the numeric item means of the term's courses, and is
\* exactly 0, not absent, when no course has one (also for no course at all).
C16_ItemMean ==
    pc = "ret" =>
        /\ DOMAIN ret = 1..5
        /\ \A item_num \in 1..5 :
              LET S == { k \in 1..Len(call) : call[k][item_num].kind = "num" }
              IN  IF S = {} THEN ret[item_num] = <<0, 1>>
                  ELSE /\ ret[item_num][2] > 0
                       /\ ret[item_num][1] * Cardinality(S)
                             = ret[item_num][2] * MeanTotal(S, item_num)

\* A term of three courses where item 1 has three numeric means, item 2 has
\* two and item 3 has none.
C16_Witness ==
    /\ pc = "ret"
    /\ Len(call) = 3
    /\ \A k \in 1..3 : call[k][1].kind = "num"
    /\ Cardinality({ k \in 1..3 : call[k][2].kind = "num" }) = 2
    /\ \A k \in 1..3 : call[k][3].kind # "num"
    /\ ret[3] = <<0, 1>>
    /\ ret[2][1] # 0

\* The numeric Overall_Mean values of the courses of the term at position j
\* of year_data, as a set of positions, and their sum.
NumericAt(j) == { c \in 1..Len(call[j][2]) : call[j][2][c].kind = "num" }

RECURSIVE OverallTotal(_, _)
OverallTotal(j, S) ==
    IF S = {} THEN 0
    ELSE LET c == CHOOSE x \in S : TRUE
         IN  call[j][2][c].v + OverallTotal(j, S \ {c})

\* The positions of year_data whose term is one of the four and has at least
\* one numeric overall mean.
Qualifying ==
    { j \in 1..Len(call) :
        /\ call[j][1] \in {"Fall", "Winter", "Spring", "Summer"}
        /\ NumericAt(j) # {} }

\* C17: the trend takes the terms Fall, Winter, Spring, Summer in that order,
\* keeps a term only if one of its courses has a numeric overall mean, plots
\* for it the mean of those, and is None exactly when fewer than two terms
\* qualify.
C17_OverallTrend ==
    pc = "ret" =>
        /\ ret.none <=> Cardinality(Qualifying) < 2
        /\ ~ret.none =>
              /\ Len(ret.terms) = Cardinality(Qualifying)
              /\ Len(ret.overall_means) = Len(ret.terms)
              /\ \A a, b \in 1..Len(ret.terms) :
                    a < b => ReportRank(ret.terms[a]) < ReportRank(ret.terms[b])
              /\ \A j \in Qualifying :
                    \E k \in 1..Len(ret.terms) :
                       /\ ret.terms[k] = call[j][1]
                       /\ ret.overall_means[k][2] > 0
                       /\ ret.overall_means[k][1] * Cardinality(NumericAt(j))
                             = ret.overall_means[k][2]
                                  * OverallTotal(j, NumericAt(j))

\* Exactly one term qualifies, among three present terms: no trend.
C17_Witness ==
    /\ pc = "ret"
    /\ Len(call) >= 3
    /\ Cardinality(Qualifying) = 1
    /\ \E j \in 1..Len(call) :
          call[j][1] \in {"Fall", "Winter", "Spring", "Summer"}
             /\ call[j][2] # <<>> /\ NumericAt(j) = {}
    /\ ret.none

\* The five canonical question texts, by item number.
CanonicalQuestions ==
    << "The instructor explained concepts clearly.",
       "The instructor used effective teaching methods.",
       "The instructor interacted with students in a respectful, professional manner.",
       "The instructor was knowledgeable in the subject area.",
       "Overall, I rate the instructor highly." >>

\* C18: when no document of the batch yields a non-empty catalog (the batch
\* is empty, every document fails, or every parsed document has an empty
\* catalog), process_files returns the default catalog: item numbers 1..5
\* with the canonical question texts.
C18_DefaultCatalog ==
    (Returned /\ WithCatalog = {}) =>
        /\ Len(survey_items) = 5
        /\ \A n \in 1..5 : survey_items[n] = <<n, CanonicalQuestions[n]>>

\* A failed document and a parsed document without a catalog.
C18_Witness ==
    /\ Returned
    /\ Len(uploaded_files) = 2
    /\ ~Parses(1)
    /\ Parses(2)
    /\ CatalogOf(2) = <<>>
    /\ survey_items[5] = <<5, "Overall, I rate the instructor highly.">>

\* C19: the batch catalog is write-once.  Once survey_items has been given
\* a value, no later step of process_files (a later document, the default
\* fallback) gives it a different one.
C19_CatalogWriteOnce ==
    [][ survey_items # NoneItems => survey_items' = survey_items ]_vars

\* The short name C20 describes for a description that is not one of the
\* five canonical ones: a leading "The instructor " or "the instructor "
\* removed, one trailing period removed, the first character in upper case.
ClaimedShortName(full_text) ==
    LET a == IF /\ Len(full_text) >= 15
                /\ SubSeq(full_text, 1, 15) \in {TheInstructor, theInstructor}
             THEN SubSeq(full_text, 16, Len(full_text))
             ELSE full_text
        b == IF a # <<>> /\ a[Len(a)] = "." THEN SubSeq(a, 1, Len(a) - 1) ELSE a
    IN  IF b = <<>> THEN b ELSE <<Upper(b[1])>> \o Tail(b)

\* C20: create_short_name gives each of the five canonical descriptions its
\* canonical short name; any other description loses only a leading
\* "The instructor " / "the instructor " (later occurrences stay) and exactly
\* one trailing period (further ones stay), and only its first character is
\* put in upper case.
C20_ShortName ==
    pc = "ret" =>
        /\ \A k \in 1..5 : call = item_mapping[k][1] => ret = item_mapping[k][2]
        /\ (\A k \in 1..5 : call # item_mapping[k][1]) =>
              ret = ClaimedShortName(call)

\* Characters a file name keeps: word characters, hyphen, underscore.
Kept(c) == c \in WordChars \/ c = "-" \/ c = "_"

\* The positions of the instructor field before its first comma.
BeforeFirstComma(name) ==
    { k \in 1..Len(name) : \A j \in 1..k : name[j] # "," }

\* "<L>_<academic_year>.pdf" with L the kept characters before the first
\* comma of the instructor field.
ClaimedFilename(name, academic_year) ==
    LET before == [k \in 1..Cardinality(BeforeFirstComma(name)) |-> name[k]]
    IN  SelectSeq(before, Kept) \o <<"_">> \o academic_year
           \o <<".", "p", "d", "f">>

\* C21 as stated: the file name is "<L>_<academic_year>.pdf", L being the
\* instructor field before its first comma without the characters that are
\* not word characters, hyphen or underscore, for every instructor value,
\* the empty string included.
C21_FilenameEveryInstructor ==
    pc = "ret" => ret = ClaimedFilename(call[1], call[2])

\* C21 amended: the same for every non-empty instructor field; for the
\* empty instructor field L is "UNKNOWN".
C21_Filename ==
    pc = "ret" =>
        IF call[1] # <<>>
        THEN ret = ClaimedFilename(call[1], call[2])
        ELSE ret = <<"U", "N", "K", "N", "O", "W", "N", "_">> \o call[2]
                       \o <<".", "p", "d", "f">>

\* A field with a character to remove before the comma and text after it.
C21_Witness ==
    /\ pc = "ret"
    /\ call[1] = <<"L", "'", ",">>
    /\ ret = <<"L", "_">> \o call[2] \o <<".", "p", "d", "f">>

\* The stages of the batch by position: Uploaded/Parsed (the document loop),
\* Catalog-Resolved, Grouped and rendering, returned, export.
StageRank(p) ==
    CASE p = "loop"     -> 1
      [] p = "group"    -> 2
      [] p = "render"   -> 3
      [] p = "returned" -> 4
      [] OTHER          -> 5

\* C22: the batch goes through its stages in order and never back; the
\* catalog is resolved only when every document has been handled, grouping
\* starts only from the resolved catalog, and once the Record list has been
\* grouped no later step reorders or rewrites it.
C22_StageOrder ==
    [][ /\ StageRank(pc') \in { StageRank(pc), StageRank(pc) + 1 }
        /\ (pc = "loop" /\ pc' # "loop") =>
               (i > Len(uploaded_files) /\ pc' = "group")
        /\ pc' = "render" => survey_items' # NoneItems
        /\ StageRank(pc) >= 3 => (all_data' = all_data /\ groups' = groups)
      ]_vars

\* The fields of a Record.
FieldsOf(d) == << d.Semester, d.Year, d.Instructor >>

\* The records of the flat list that come from document k.
RecordsOf(k) == { j \in 1..Len(all_data) : all_data[j].obj = k }

Accepted == { k \in 1..Len(call.lines) : item_match(call.lines[k]) }

\* The item number of the row at line k.
ItemNumber(k) == ParseInt(call.lines[k][1])

\* C24: the item rows of a document are stored by ascending item number
\* whatever the order of the lines: when the accepted rows have distinct item
\* numbers, every text that has the same item rows in another order, the
\* other lines staying where they are, gives the same Record.
C24_ItemOrderIndependent ==
    (pc = "ret"
        /\ \A k1, k2 \in Accepted : k1 # k2 => ItemNumber(k1) # ItemNumber(k2)) =>
        /\ \A a, b \in 1..Len(ret.items) :
              a < b => ret.items[a][1] < ret.items[b][1]
        /\ ret.outcome = "result" => Len(ret.items) = Cardinality(Accepted)
        /\ \A lines \in Orderings(call.lines) :
              (\A k \in (1..Len(call.lines)) \ Accepted : lines[k] = call.lines[k])
                 => parse_statistics([call EXCEPT !.lines = lines]) = ret

\* Item 2 before item 1 in the text; item 1 is stored first.
C24_Witness ==
    /\ pc = "ret"
    /\ call.pre
    /\ call.lines = << ItemRowAbove100, ItemRow >>
    /\ Len(ret.items) = 2
    /\ ret.items[1][1] = 1
    /\ ret.items[2][1] = 2

\* C27: of several accepted rows with one item number the Record keeps
\* exactly one, the last of them in the text, and every statistic stored for
\* that item number is that row's.
C27_LastDuplicateWins ==
    (pc = "ret" /\ ret.outcome = "result") =>
        \A k \in Accepted :
            LET last == CHOOSE m \in Accepted :
                           /\ ItemNumber(m) = ItemNumber(k)
                           /\ \A m2 \in Accepted :
                                 ItemNumber(m2) = ItemNumber(k) => m2 <= m
                row  == call.lines[last]
                rows == { a \in 1..Len(ret.items) : ret.items[a][1] = ItemNumber(k) }
            IN  /\ Cardinality(rows) = 1
                /\ \A a \in rows :
                      LET item == ret.items[a][2]
                      IN  /\ item.rank = ParseInt(row[2])
                          /\ item.mean = ParseFloat(row[3])
                          /\ item.sd = ParseFloat(row[4])
                          /\ item.n = ParseInt(row[5])
                          /\ \A j \in 1..5 : item.pct[j] = PctValue(row[5 + j])
                          /\ item.response_rate = PctValue(row[11])

\* Two rows for item 1 with different statistics; the second is kept.
C27_Witness ==
    /\ pc = "ret"
    /\ call.pre
    /\ call.lines = << ItemRow, ItemRowAgain >>
    /\ Len(ret.items) = 1
    /\ ret.items[1][2].rank = 2
    /\ ret.items[1][2].n = 20

\* C25: all through the document loop processed_count + error_count is the
\* number of documents handled so far and processed_count is the length of
\* the flat Record list; handling a document adds one to exactly one of the
\* two counters and leaves the other.
C25_CountersInLoop ==
    [][ /\ pc = "loop" =>
              /\ processed_count + error_count = i - 1
              /\ processed_count = Len(all_data)
        /\ pc' = "loop" =>
              /\ processed_count' + error_count' = i' - 1
              /\ processed_count' = Len(all_data')
        /\ (pc = "loop" /\ i <= Len(uploaded_files)) =>
              /\ i' = i + 1
              /\ \/ /\ processed_count' = processed_count + 1
                    /\ error_count' = error_count
                 \/ /\ processed_count' = processed_count
                    /\ error_count' = error_count + 1 ]_vars

\* In the middle of a batch of two, after a failed first document.
C25_Witness ==
    /\ pc = "loop"
    /\ Len(uploaded_files) = 2
    /\ i = 2
    /\ error_count = 1
    /\ processed_count = 0

\* C26: the reports of two distinct (instructor, academic year) groups of
\* one batch get distinct file names, also for two instructors with the same
\* last name and for an empty instructor field.
C26_DistinctFilenames ==
    pc = "ret" => ret[1] # ret[2]

====
